---- MODULE Spec2Model ----
(***************************************************************************)
(* Per-driver telemetry buffering of DriverTelemetryWindow                 *)
(* (src/src/insights/driver_telemetry_window.py).                          *)
(*                                                                         *)
(* Conventions of the model                                                *)
(*  - a Python dict is a function whose DOMAIN is the set of its keys; the *)
(*    empty dict is the function with the empty domain, <<>>;              *)
(*  - an Optional value is None (<<>>) or Some(v) (<<v>>);                 *)
(*  - a driver code is a string, modelled as the tuple of its character    *)
(*    codes so that sorted() can be computed (HAM = <<72, 65, 77>>); the   *)
(*    empty string is <<>>;                                                *)
(*  - brake values, raw and stored, are counted in hundredths (raw 73 is   *)
(*    the fraction 0.73, stored 7300 is 73.00 percent); every other number *)
(*    is a whole number.                                                   *)
(***************************************************************************)
EXTENDS Integers, Sequences, FiniteSets, TLC

VARIABLES
    known_drivers,      \* self._known_drivers
    driver_combo,       \* self.driver_combo: [items, current]
    time_buffers,       \* self._time_buffers: code -> sequence of samples
    lap_buffers,        \* self._lap_buffers: code -> [lap, start_dist, samples]
    lap_lengths,        \* self._lap_lengths: code -> length of the last completed lap
    circuit_length_m,   \* self._circuit_length_m: None or Some(length)
    x_mode,             \* self._x_mode: "time" | "lap"
    lines,              \* data of the four plotted lines
    xlim,               \* x limits of the three axes
    exc,                \* exception raised by the last callback ("none" if it returned)
    call,               \* the last callback invoked and its argument
    running             \* the on_telemetry_data call under way: None or
                        \* Some([data, todo, pc])

vars == <<known_drivers, driver_combo, time_buffers, lap_buffers, lap_lengths,
          circuit_length_m, x_mode, lines, xlim, exc, call, running>>

-----------------------------------------------------------------------------
(* Values *)

None == <<>>

Some(v) == <<v>>

EmptyDict == <<>>

EmptyText == <<>>

TIME_WINDOW == 30

\* capacity of a buffer in the model: a frame is delivered only while every
\* buffer it appends to holds fewer samples than this
MaxSamples == 4

HAM == <<72, 65, 77>>

HUL == <<72, 85, 76>>

ZZZ == <<90, 90, 90>>

\* str.__lt__: lexicographic comparison of two strings
RECURSIVE str_lt(_, _)
str_lt(a, b) ==
    IF b = <<>> THEN FALSE
    ELSE IF a = <<>> THEN TRUE
    ELSE IF a[1] # b[1] THEN a[1] < b[1]
    ELSE str_lt(Tail(a), Tail(b))

\* sorted(keys): the keys of a dict are distinct, so the order is unique
RECURSIVE sorted(_)
sorted(keys) ==
    IF keys = {} THEN <<>>
    ELSE LET least == CHOOSE k \in keys : \A o \in keys \ {k} : str_lt(k, o)
         IN  <<least>> \o sorted(keys \ {least})

Range(s) == {s[i] : i \in 1..Len(s)}

Last(s) == s[Len(s)]

\* max(xs) of a non-empty list
max(xs) == CHOOSE m \in Range(xs) : \A x \in Range(xs) : x <= m

\* `d.get(key) or 0`: an absent key and a zero both give 0
get_or_0(d, key) == IF key \in DOMAIN d THEN d[key] ELSE 0

\* d.get(key) as an Optional
get(d, key) == IF key \in DOMAIN d THEN Some(d[key]) ELSE None

-----------------------------------------------------------------------------
(* Buffer management *)

\* normalize that stores the brake fraction as it comes
normalize_raw_brake(driver) ==
    [speed    |-> get_or_0(driver, "speed"),
     gear     |-> get_or_0(driver, "gear"),
     throttle |-> get_or_0(driver, "throttle"),
     brake    |-> get_or_0(driver, "brake"),
     dist     |-> get_or_0(driver, "dist"),
     lap      |-> get(driver, "lap")]

\* the five numeric readings and the lap of one driver entry
normalize(driver) ==
    [speed    |-> get_or_0(driver, "speed"),
     gear     |-> get_or_0(driver, "gear"),
     throttle |-> get_or_0(driver, "throttle"),
     brake    |-> get_or_0(driver, "brake") * 100,
     dist     |-> get_or_0(driver, "dist"),
     lap      |-> get(driver, "lap")]

\* prune that also drops a sample exactly at the cutoff
RECURSIVE prune_at_cutoff(_, _)
prune_at_cutoff(tb, cutoff) ==
    IF tb # <<>> /\ tb[1].t <= cutoff
    THEN prune_at_cutoff(Tail(tb), cutoff)
    ELSE tb

\* while tb and tb[0]["t"] < cutoff: tb.popleft()
RECURSIVE prune(_, _)
prune(tb, cutoff) ==
    IF tb # <<>> /\ tb[1].t < cutoff THEN prune(Tail(tb), cutoff) ELSE tb

\* the time buffer after one sample
append_time(tb, s, session_t) ==
    prune(Append(tb, [t |-> session_t, speed |-> s.speed, gear |-> s.gear,
                      throttle |-> s.throttle, brake |-> s.brake]),
          session_t - TIME_WINDOW)

\* new_lap that takes only a higher lap for a new one
new_lap_higher_only(lb, lap) ==
    IF lap = None THEN FALSE
    ELSE IF lb.lap = None THEN TRUE
    ELSE lap[1] > lb.lap[1]

\* new_lap without the `is not None` test
new_lap_any_difference(lb, lap) == lap # lb.lap

\* `lap is not None and lap != lb["lap"]`
new_lap(lb, lap) == lap # None /\ lap # lb.lap

\* reset_lap that keeps the samples of the lap before
reset_lap_keeping_samples(lb, s) ==
    IF new_lap(lb, s.lap)
    THEN [lap |-> s.lap, start_dist |-> s.dist, samples |-> lb.samples]
    ELSE lb

\* reset_lap that forgets to re-base the start distance
reset_lap_stale_start(lb, s) ==
    IF new_lap(lb, s.lap)
    THEN [lap |-> s.lap, start_dist |-> lb.start_dist, samples |-> <<>>]
    ELSE lb

\* lb after the reset of a new lap (or lb itself)
reset_lap(lb, s) ==
    IF new_lap(lb, s.lap)
    THEN [lap |-> s.lap, start_dist |-> s.dist, samples |-> <<>>]
    ELSE lb

\* append_lap that stores the raw distance
append_lap_raw_dist(lb, s) ==
    LET lb1 == reset_lap(lb, s)
    IN  [lb1 EXCEPT !.samples =
            Append(@, [dist |-> s.dist, speed |-> s.speed, gear |-> s.gear,
                       throttle |-> s.throttle, brake |-> s.brake])]

\* append_lap that returns after the reset of a new lap, the sample dropped
append_lap_reset_only(lb, s) ==
    IF new_lap(lb, s.lap)
    THEN reset_lap(lb, s)
    ELSE [lb EXCEPT !.samples =
             Append(@, [dist |-> s.dist - lb.start_dist, speed |-> s.speed,
                        gear |-> s.gear, throttle |-> s.throttle,
                        brake |-> s.brake])]

\* the lap buffer after one sample
append_lap(lb, s) ==
    LET lb1 == reset_lap(lb, s)
    IN  [lb1 EXCEPT !.samples =
            Append(@, [dist |-> s.dist - lb1.start_dist, speed |-> s.speed,
                       gear |-> s.gear, throttle |-> s.throttle,
                       brake |-> s.brake])]

\* does the sample record a completed lap's length
completes_lap(lb, s) == new_lap(lb, s.lap) /\ lb.samples # <<>>

\* _ensure_buffers: the buffers of a code, created empty when absent
ensure_time(code) ==
    IF code \in DOMAIN time_buffers THEN time_buffers[code] ELSE <<>>

ensure_lap(code) ==
    IF code \in DOMAIN lap_buffers THEN lap_buffers[code]
    ELSE [lap |-> None, start_dist |-> 0, samples |-> <<>>]

-----------------------------------------------------------------------------
(* Chart redraw *)

EmptyLines ==
    [xs |-> <<>>, speeds |-> <<>>, gears |-> <<>>, throttles |-> <<>>,
     brakes |-> <<>>]

DefaultXlim == <<0, 1>>

\* the lines of a sample list over the x values xs
lines_of(xs, samples) ==
    [xs        |-> xs,
     speeds    |-> [i \in 1..Len(samples) |-> samples[i].speed],
     gears     |-> [i \in 1..Len(samples) |-> samples[i].gear],
     throttles |-> [i \in 1..Len(samples) |-> samples[i].throttle],
     brakes    |-> [i \in 1..Len(samples) |-> samples[i].brake]]

\* _clear_lines: empty lines, and no set_xlim call
cleared == [lines |-> EmptyLines, xlim |-> None, exc |-> "none"]

\* redraw_time that only looks for an empty buffer: list(None) raises
redraw_time_unguarded(tbs, code) ==
    IF code \notin DOMAIN tbs
    THEN [lines |-> EmptyLines, xlim |-> None, exc |-> "TypeError"]
    ELSE IF tbs[code] = <<>> THEN cleared
    ELSE LET samples == tbs[code]
             t_now   == Last(samples).t
             xs      == [i \in 1..Len(samples) |-> samples[i].t - t_now]
         IN  [lines |-> lines_of(xs, samples),
              xlim  |-> Some(<<-TIME_WINDOW, 0>>),
              exc   |-> "none"]

redraw_time(tbs, code) ==
    IF code \notin DOMAIN tbs \/ tbs[code] = <<>>
    THEN cleared
    ELSE LET samples == tbs[code]
             t_now   == Last(samples).t
             xs      == [i \in 1..Len(samples) |-> samples[i].t - t_now]
         IN  [lines |-> lines_of(xs, samples),
              xlim  |-> Some(<<-TIME_WINDOW, 0>>),
              exc   |-> "none"]

\* `circuit_length_m or lap_lengths.get(code) or max(xs)`
lap_length(circuit, lls, code, xs) ==
    IF circuit # None /\ circuit[1] # 0
    THEN circuit[1]
    ELSE IF code \in DOMAIN lls /\ lls[code] # 0
    THEN lls[code]
    ELSE max(xs)

redraw_lap(lbs, lls, circuit, code) ==
    IF code \notin DOMAIN lbs \/ lbs[code].samples = <<>>
    THEN cleared
    ELSE LET samples == lbs[code].samples
             xs      == [i \in 1..Len(samples) |-> samples[i].dist]
         IN  [lines |-> lines_of(xs, samples),
              xlim  |-> Some(<<0, lap_length(circuit, lls, code, xs)>>),
              exc   |-> "none"]

\* _redraw(driver_code) in mode `mode` over the buffers given: the lines it
\* sets, the x limits it sets (None when it sets none), what it raises
redraw(tbs, lbs, lls, circuit, driver_code, mode) ==
    IF driver_code = EmptyText THEN cleared
    ELSE IF mode = "time" THEN redraw_time(tbs, driver_code)
    ELSE redraw_lap(lbs, lls, circuit, driver_code)

\* the chart after a redraw
Show(r) ==
    /\ lines' = r.lines
    /\ xlim' = IF r.xlim = None THEN xlim ELSE r.xlim[1]
    /\ exc' = r.exc

-----------------------------------------------------------------------------
(* Driver selector *)

\* refresh_driver_list that compares the number of drivers only
refresh_driver_list_by_count(drivers) ==
    LET incoming == sorted(DOMAIN drivers)
    IN  IF Len(incoming) = Len(known_drivers)
        THEN [known |-> known_drivers, combo |-> driver_combo]
        ELSE [known |-> incoming,
              combo |-> [items   |-> incoming,
                         current |-> IF driver_combo.current \in Range(incoming)
                                     THEN driver_combo.current
                                     ELSE IF incoming # <<>> THEN incoming[1]
                                     ELSE EmptyText]]

\* _refresh_driver_list: the combo and _known_drivers after a frame
refresh_driver_list(drivers) ==
    LET incoming == sorted(DOMAIN drivers)
    IN  IF incoming = known_drivers
        THEN [known |-> known_drivers, combo |-> driver_combo]
        ELSE [known |-> incoming,
              combo |-> [items   |-> incoming,
                         current |-> IF driver_combo.current \in Range(incoming)
                                     THEN driver_combo.current
                                     ELSE IF incoming # <<>> THEN incoming[1]
                                     ELSE EmptyText]]

-----------------------------------------------------------------------------
(* Callbacks *)

\* the two early returns of on_telemetry_data
\* data["frame"], an absent frame read as the empty one
frame_of(data) == IF "frame" \in DOMAIN data THEN data["frame"] ELSE EmptyDict

\* data["frame"].get("drivers", {})
drivers_of(data) ==
    IF "drivers" \in DOMAIN frame_of(data) THEN frame_of(data)["drivers"]
    ELSE EmptyDict

\* no_competitor_data without the test of the drivers
no_competitor_data_frame_only(data) ==
    IF "frame" \notin DOMAIN data THEN TRUE
    ELSE data["frame"] = EmptyDict

no_competitor_data(data) ==
    IF "frame" \notin DOMAIN data THEN TRUE
    ELSE IF data["frame"] = EmptyDict THEN TRUE
    ELSE drivers_of(data) = EmptyDict

\* capture_circuit_length with the `is None` test inverted
capture_circuit_length_inverted(current, data) ==
    IF current # None /\ get_or_0(data, "circuit_length_m") # 0
    THEN Some(data["circuit_length_m"])
    ELSE current

\* capture_circuit_length without the `is None` test
capture_circuit_length_always(current, data) ==
    IF get_or_0(data, "circuit_length_m") # 0
    THEN Some(data["circuit_length_m"])
    ELSE current

\* `if self._circuit_length_m is None and data.get("circuit_length_m")`
capture_circuit_length(current, data) ==
    IF current = None /\ get_or_0(data, "circuit_length_m") # 0
    THEN Some(data["circuit_length_m"])
    ELSE current

\* on_telemetry_data that keeps buffers for the drivers of the frame only
on_telemetry_data_frame_drivers_only(data) ==
    /\ call' = [op |-> "on_telemetry_data", arg |-> data]
    /\ IF no_competitor_data(data)
       THEN UNCHANGED <<known_drivers, driver_combo, time_buffers, lap_buffers,
                        lap_lengths, circuit_length_m, x_mode, lines, xlim, exc>>
       ELSE LET drivers   == drivers_of(data)
                circuit   == capture_circuit_length(circuit_length_m, data)
                session_t == get_or_0(frame_of(data), "t")
                refreshed == refresh_driver_list(drivers)
                sample(code) == normalize(drivers[code])
                completed == {code \in DOMAIN drivers :
                                 completes_lap(ensure_lap(code), sample(code))}
                tbs == [code \in DOMAIN drivers |->
                          append_time(ensure_time(code), sample(code), session_t)]
                lbs == [code \in DOMAIN drivers |->
                          append_lap(ensure_lap(code), sample(code))]
                lls == [code \in DOMAIN lap_lengths \cup completed |->
                          IF code \in completed
                          THEN Last(lap_buffers[code].samples).dist
                          ELSE lap_lengths[code]]
                selected == refreshed.combo.current
            IN  /\ circuit_length_m' = circuit
                /\ known_drivers' = refreshed.known
                /\ driver_combo' = refreshed.combo
                /\ time_buffers' = tbs
                /\ lap_buffers' = lbs
                /\ lap_lengths' = lls
                /\ x_mode' = x_mode
                /\ IF selected # EmptyText
                   THEN Show(redraw(tbs, lbs, lls, circuit, selected, x_mode))
                   ELSE UNCHANGED <<lines, xlim, exc>>

on_telemetry_data(data) ==
    /\ call' = [op |-> "on_telemetry_data", arg |-> data]
    /\ IF no_competitor_data(data)
       THEN UNCHANGED <<known_drivers, driver_combo, time_buffers, lap_buffers,
                        lap_lengths, circuit_length_m, x_mode, lines, xlim, exc>>
       ELSE LET drivers   == drivers_of(data)
                circuit   == capture_circuit_length(circuit_length_m, data)
                session_t == get_or_0(frame_of(data), "t")
                refreshed == refresh_driver_list(drivers)
                sample(code) == normalize(drivers[code])
                codes     == DOMAIN time_buffers \cup DOMAIN drivers
                completed == {code \in DOMAIN drivers :
                                 completes_lap(ensure_lap(code), sample(code))}
                tbs == [code \in codes |->
                          IF code \in DOMAIN drivers
                          THEN append_time(ensure_time(code), sample(code), session_t)
                          ELSE time_buffers[code]]
                lbs == [code \in codes |->
                          IF code \in DOMAIN drivers
                          THEN append_lap(ensure_lap(code), sample(code))
                          ELSE lap_buffers[code]]
                lls == [code \in DOMAIN lap_lengths \cup completed |->
                          IF code \in completed
                          THEN Last(lap_buffers[code].samples).dist
                          ELSE lap_lengths[code]]
                selected == refreshed.combo.current
            IN  /\ circuit_length_m' = circuit
                /\ known_drivers' = refreshed.known
                /\ driver_combo' = refreshed.combo
                /\ time_buffers' = tbs
                /\ lap_buffers' = lbs
                /\ lap_lengths' = lls
                /\ x_mode' = x_mode
                /\ IF selected # EmptyText
                   THEN Show(redraw(tbs, lbs, lls, circuit, selected, x_mode))
                   ELSE UNCHANGED <<lines, xlim, exc>>

\* on_xmode_changed that starts the lap buffers afresh
on_xmode_changed_resetting(index) ==
    /\ call' = [op |-> "on_xmode_changed", arg |-> index]
    /\ x_mode' = IF index = 0 THEN "time" ELSE "lap"
    /\ lap_buffers' =
         [code \in DOMAIN lap_buffers |->
            [lap |-> None, start_dist |-> 0, samples |-> <<>>]]
    /\ Show(redraw(time_buffers, lap_buffers', lap_lengths, circuit_length_m,
                    driver_combo.current, IF index = 0 THEN "time" ELSE "lap"))
    /\ UNCHANGED <<known_drivers, driver_combo, time_buffers, lap_lengths,
                   circuit_length_m>>

on_xmode_changed(index) ==
    /\ call' = [op |-> "on_xmode_changed", arg |-> index]
    /\ x_mode' = IF index = 0 THEN "time" ELSE "lap"
    /\ Show(redraw(time_buffers, lap_buffers, lap_lengths, circuit_length_m,
                    driver_combo.current, IF index = 0 THEN "time" ELSE "lap"))
    /\ UNCHANGED <<known_drivers, driver_combo, time_buffers, lap_buffers,
                   lap_lengths, circuit_length_m>>

\* the combo emits the text the user picked among its items; a call with any
\* other text leaves the combo as it is
on_driver_selected(driver_code) ==
    /\ call' = [op |-> "on_driver_selected", arg |-> driver_code]
    /\ driver_combo' =
         IF driver_code \in Range(driver_combo.items)
         THEN [driver_combo EXCEPT !.current = driver_code]
         ELSE driver_combo
    /\ Show(redraw(time_buffers, lap_buffers, lap_lengths, circuit_length_m,
                    driver_code, x_mode))
    /\ UNCHANGED <<known_drivers, time_buffers, lap_buffers, lap_lengths,
                   circuit_length_m, x_mode>>

\* on_connection_status_changed that drops what is buffered on a disconnect
on_connection_status_changed_discarding(status) ==
    /\ call' = [op |-> "on_connection_status_changed", arg |-> status]
    /\ IF status # "Connected"
       THEN /\ Show(cleared)
            /\ time_buffers' = EmptyDict
            /\ lap_buffers' = EmptyDict
            /\ lap_lengths' = EmptyDict
       ELSE UNCHANGED <<lines, xlim, exc, time_buffers, lap_buffers,
                        lap_lengths>>
    /\ UNCHANGED <<known_drivers, driver_combo, circuit_length_m, x_mode>>

on_connection_status_changed(status) ==
    /\ call' = [op |-> "on_connection_status_changed", arg |-> status]
    /\ IF status # "Connected"
       THEN Show(cleared)
       ELSE UNCHANGED <<lines, xlim, exc>>
    /\ UNCHANGED <<known_drivers, driver_combo, time_buffers, lap_buffers,
                   lap_lengths, circuit_length_m, x_mode>>

-----------------------------------------------------------------------------
(* The stream: the frames the window can be sent *)

\* {**f, **g} for dicts with distinct keys
merge(f, g) ==
    [k \in DOMAIN f \cup DOMAIN g |-> IF k \in DOMAIN f THEN f[k] ELSE g[k]]

\* {key: v}
entry(key, v) == [k \in {key} |-> v]

\* the dicts holding `key` with one of `values`, or not holding it
Opt(key, values) == {EmptyDict} \cup {entry(key, v) : v \in values}

\* the readings of a driver entry that carries them all
Readings == [speed |-> 250, gear |-> 7, throttle |-> 100, brake |-> 73]

Full == merge(Readings, [dist |-> 100, lap |-> 1])

\* the messages whose frame is `frame`, with one of the circuit lengths or none
Messages(frames, circuits) ==
    {merge(entry("frame", frame), c) : frame \in frames, c \in Opt("circuit_length_m", circuits)}

\* the frames at one of the times `ts` (or without a time) whose drivers are
\* the codes of one of `codesets`, each with one of the entries `entries`
FramesOf(ts, codesets, entries) ==
    UNION {{merge(t, entry("drivers", d)) : t \in ts, d \in [codes -> entries]} :
              codes \in codesets}

\* messages without competitor data: no frame, an empty frame, a frame
\* without drivers, a frame with an empty drivers mapping
Hollow == {EmptyDict, [frame |-> EmptyDict], [frame |-> [t |-> 40]],
           [frame |-> [t |-> 40, drivers |-> EmptyDict]]}

\* the driver entries that lack one of `keys`, or nothing
Lacking(full, keys) ==
    {full} \cup {[k \in DOMAIN full \ {key} |-> full[k]] : key \in keys}

\* one driver at session times around the window: an absent time counts as
\* 0, and 0 and 30 are exactly TIME_WINDOW apart
TimeFrames ==
    Messages(FramesOf(Opt("t", {30, 40}), {{HAM}}, {Full}), {}) \cup {EmptyDict}

\* one driver over laps and distances, at a fixed time, one of the frames
\* also with a circuit length
LapFrames ==
    Messages(FramesOf({[t |-> 40]}, {{HAM}},
                      {merge(Readings, merge(d, l)) :
                          d \in {[dist |-> 100], [dist |-> 250]},
                          l \in Opt("lap", {1, 2})} \cup {EmptyDict}),
             {})
        \cup Messages(FramesOf({[t |-> 40]}, {{HAM}}, {Full}), {5412})
        \cup {EmptyDict}

\* one driver whose entry lacks any one of its fields, or all of them
FieldFrames ==
    Messages(FramesOf({[t |-> 40]}, {{HAM}},
                      Lacking(Full, DOMAIN Full) \cup {EmptyDict}),
             {})
        \cup {EmptyDict}

\* the drivers coming and going, with and without a circuit length, and the
\* messages without competitor data
SessionFrames ==
    Messages(FramesOf({[t |-> 40]}, {{HAM}, {HUL}, {HAM, HUL}}, {Full}),
             {0, 5412, 9999})
        \cup Hollow
        \cup {merge(h, [circuit_length_m |-> 9999]) : h \in Hollow}

\* two drivers coming and going over two laps, and a message without
\* competitor data
PairFrames ==
    Messages(FramesOf({[t |-> 40]}, {{HAM}, {HUL}, {HAM, HUL}},
                      {Full, merge([dist |-> 250, lap |-> 2], Full)}),
             {})
        \cup {EmptyDict}

QueryCodes == {EmptyText, HAM, ZZZ}

Statuses == {"Connected", "Disconnected"}

\* the model delivers a frame only while the buffers it appends to have room
deliverable(data) ==
    IF no_competitor_data(data) THEN TRUE
    ELSE \A code \in DOMAIN drivers_of(data) :
            /\ Len(ensure_time(code)) < MaxSamples
            /\ Len(ensure_lap(code).samples) < MaxSamples

-----------------------------------------------------------------------------
(* on_telemetry_data, statement by statement *)

\* the orders in which a dict with these keys can be iterated
orders(codes) ==
    {seq \in [1..Cardinality(codes) -> codes] : Range(seq) = codes}

\* the call under way, the driver it is at, that driver's sample, the time
cur == running[1]

code_now == Head(cur.todo)

sample_now == normalize(drivers_of(cur.data)[code_now])

session_t_now == get_or_0(frame_of(cur.data), "t")

at(pc) == running # None /\ cur.pc = pc

goto(pc) == running' = Some([cur EXCEPT !.pc = pc])

\* lines 283-295: the early returns, the circuit length, the driver list
begin_telemetry_data(data, order) ==
    /\ call' = [op |-> "on_telemetry_data", arg |-> data]
    /\ IF no_competitor_data(data)
       THEN UNCHANGED <<known_drivers, driver_combo, circuit_length_m, running>>
       ELSE LET refreshed == refresh_driver_list(drivers_of(data))
            IN  /\ circuit_length_m' =
                      capture_circuit_length(circuit_length_m, data)
                /\ known_drivers' = refreshed.known
                /\ driver_combo' = refreshed.combo
                /\ running' = Some([data |-> data, todo |-> order,
                                    pc |-> "ensure_time"])
    /\ UNCHANGED <<time_buffers, lap_buffers, lap_lengths, x_mode, lines,
                   xlim, exc>>

\* lines 152-153
ensure_time_buffer ==
    /\ at("ensure_time")
    /\ time_buffers' =
         IF code_now \in DOMAIN time_buffers THEN time_buffers
         ELSE merge(time_buffers, entry(code_now, <<>>))
    /\ goto("ensure_lap")
    /\ UNCHANGED <<known_drivers, driver_combo, lap_buffers, lap_lengths,
                   circuit_length_m, x_mode, lines, xlim, exc, call>>

\* lines 154-155
ensure_lap_buffer ==
    /\ at("ensure_lap")
    /\ lap_buffers' =
         IF code_now \in DOMAIN lap_buffers THEN lap_buffers
         ELSE merge(lap_buffers,
                    entry(code_now,
                          [lap |-> None, start_dist |-> 0, samples |-> <<>>]))
    /\ goto("append_time")
    /\ UNCHANGED <<known_drivers, driver_combo, time_buffers, lap_lengths,
                   circuit_length_m, x_mode, lines, xlim, exc, call>>

\* lines 168-170: tb.append
append_time_sample ==
    /\ at("append_time")
    /\ time_buffers' =
         [time_buffers EXCEPT ![code_now] =
             Append(@, [t |-> session_t_now, speed |-> sample_now.speed,
                        gear |-> sample_now.gear,
                        throttle |-> sample_now.throttle,
                        brake |-> sample_now.brake])]
    /\ goto("popleft")
    /\ UNCHANGED <<known_drivers, driver_combo, lap_buffers, lap_lengths,
                   circuit_length_m, x_mode, lines, xlim, exc, call>>

\* lines 171-173: one turn of the while loop, or its end
popleft_stale ==
    /\ at("popleft")
    /\ LET tb == time_buffers[code_now]
       IN  IF tb # <<>> /\ tb[1].t < session_t_now - TIME_WINDOW
           THEN /\ time_buffers' = [time_buffers EXCEPT ![code_now] = Tail(@)]
                /\ UNCHANGED running
           ELSE /\ UNCHANGED time_buffers
                /\ goto("new_lap")
    /\ UNCHANGED <<known_drivers, driver_combo, lap_buffers, lap_lengths,
                   circuit_length_m, x_mode, lines, xlim, exc, call>>

\* lines 177-180: the test of the lap, and the lap length when one ended
record_lap_length ==
    /\ at("new_lap")
    /\ LET lb == lap_buffers[code_now]
       IN  IF new_lap(lb, sample_now.lap)
           THEN /\ lap_lengths' =
                     IF lb.samples # <<>>
                     THEN merge(entry(code_now, Last(lb.samples).dist),
                                lap_lengths)
                     ELSE lap_lengths
                /\ goto("reset_lap")
           ELSE /\ UNCHANGED lap_lengths
                /\ goto("append_lap")
    /\ UNCHANGED <<known_drivers, driver_combo, time_buffers, lap_buffers,
                   circuit_length_m, x_mode, lines, xlim, exc, call>>

\* lines 181-183: the lap, its start distance, the samples emptied
reset_lap_buffer ==
    /\ at("reset_lap")
    /\ lap_buffers' =
         [lap_buffers EXCEPT ![code_now] =
             [lap |-> sample_now.lap, start_dist |-> sample_now.dist,
              samples |-> <<>>]]
    /\ goto("append_lap")
    /\ UNCHANGED <<known_drivers, driver_combo, time_buffers, lap_lengths,
                   circuit_length_m, x_mode, lines, xlim, exc, call>>

\* append_lap_sample that goes on to the next driver with nothing appended
append_lap_sample_skipped ==
    /\ at("append_lap")
    /\ running' =
         IF Tail(cur.todo) = <<>>
         THEN Some([cur EXCEPT !.pc = "redraw"])
         ELSE Some([cur EXCEPT !.todo = Tail(@), !.pc = "ensure_time"])
    /\ UNCHANGED <<known_drivers, driver_combo, time_buffers, lap_buffers,
                   lap_lengths, circuit_length_m, x_mode, lines, xlim, exc,
                   call>>

\* lines 185-186, and the loop of line 297 going on to the next driver
append_lap_sample ==
    /\ at("append_lap")
    /\ lap_buffers' =
         [lap_buffers EXCEPT ![code_now].samples =
             Append(@, [dist |-> sample_now.dist
                                   - lap_buffers[code_now].start_dist,
                        speed |-> sample_now.speed, gear |-> sample_now.gear,
                        throttle |-> sample_now.throttle,
                        brake |-> sample_now.brake])]
    /\ running' =
         IF Tail(cur.todo) = <<>>
         THEN Some([cur EXCEPT !.pc = "redraw"])
         ELSE Some([cur EXCEPT !.todo = Tail(@), !.pc = "ensure_time"])
    /\ UNCHANGED <<known_drivers, driver_combo, time_buffers, lap_lengths,
                   circuit_length_m, x_mode, lines, xlim, exc, call>>

\* lines 300-302: the redraw for the selected driver, and the return
redraw_selected ==
    /\ at("redraw")
    /\ IF driver_combo.current # EmptyText
       THEN Show(redraw(time_buffers, lap_buffers, lap_lengths,
                        circuit_length_m, driver_combo.current, x_mode))
       ELSE UNCHANGED <<lines, xlim, exc>>
    /\ running' = None
    /\ UNCHANGED <<known_drivers, driver_combo, time_buffers, lap_buffers,
                   lap_lengths, circuit_length_m, x_mode, call>>

\* the event loop of the window's thread hands over the next event, a frame
\* or a user's action, when the callback before it has returned
dispatchable == running = None

-----------------------------------------------------------------------------
(* Specifications *)

Init ==
    /\ known_drivers = <<>>
    /\ driver_combo = [items |-> <<>>, current |-> EmptyText]
    /\ time_buffers = EmptyDict
    /\ lap_buffers = EmptyDict
    /\ lap_lengths = EmptyDict
    /\ circuit_length_m = None
    /\ x_mode = "time"
    /\ lines = EmptyLines
    /\ xlim = DefaultXlim
    /\ exc = "none"
    /\ call = [op |-> "__init__", arg |-> None]
    /\ running = None

\* a frame handled from its first statement to its last in one step
Deliver(stream) ==
    /\ \E data \in stream : deliverable(data) /\ on_telemetry_data(data)
    /\ UNCHANGED running

View ==
    /\ \/ \E index \in {0, 1} : on_xmode_changed(index)
       \/ \E driver_code \in QueryCodes : on_driver_selected(driver_code)
       \/ \E status \in Statuses : on_connection_status_changed(status)
    /\ UNCHANGED running

NextTime == Deliver(TimeFrames) \/ View

SpecTime == Init /\ [][NextTime]_vars

NextLap == Deliver(LapFrames) \/ View

SpecLap == Init /\ [][NextLap]_vars

NextFields == Deliver(FieldFrames) \/ View

SpecFields == Init /\ [][NextFields]_vars

NextPair == Deliver(PairFrames) \/ View

SpecPair == Init /\ [][NextPair]_vars

\* a driver's first lap at time 40, alone and with another driver, and its
\* second lap at time 80, at another speed; and a message without a frame
StepFrames ==
    Messages(FramesOf({[t |-> 40]}, {{HAM}, {HAM, HUL}}, {Full}), {})
        \cup Messages(FramesOf({[t |-> 80]}, {{HAM}},
                               {merge([speed |-> 180, dist |-> 250,
                                       lap |-> 2], Full)}),
                      {})
        \cup {EmptyDict}

NextSteps ==
    \/ /\ dispatchable
       /\ \E data \in StepFrames :
             /\ deliverable(data)
             /\ \E order \in orders(DOMAIN drivers_of(data)) :
                   begin_telemetry_data(data, order)
    \/ ensure_time_buffer
    \/ ensure_lap_buffer
    \/ append_time_sample
    \/ popleft_stale
    \/ record_lap_length
    \/ reset_lap_buffer
    \/ append_lap_sample
    \/ redraw_selected
    \/ dispatchable /\ View

SpecSteps == Init /\ [][NextSteps]_vars

Next == Deliver(SessionFrames) \/ View

Spec == Init /\ [][Next]_vars

-----------------------------------------------------------------------------
(* Properties *)

\* the last callback was on_telemetry_data with a frame that has drivers
Ingested ==
    call.op = "on_telemetry_data" /\ drivers_of(call.arg) # EmptyDict

\* the step is on_telemetry_data with a frame that has drivers
Ingests ==
    call'.op = "on_telemetry_data" /\ drivers_of(call'.arg) # EmptyDict

\* C1: every sample retained in a driver's time buffer is at most
\* TIME_WINDOW older than the sample appended last, whatever the order of
\* the session times
C1_TimeWindowBounded ==
    \A code \in DOMAIN time_buffers :
        \A i \in 1..Len(time_buffers[code]) :
            time_buffers[code][i].t >= Last(time_buffers[code]).t - TIME_WINDOW

\* C2: a sample whose lap differs from the stored lap leaves a lap buffer of
\* exactly that one sample, started at its raw distance, on its lap, and the
\* distance of the sample that was last before becomes the driver's lap length
C2_LapReset ==
    [][Ingests =>
        \A code \in DOMAIN drivers_of(call'.arg) :
            LET driver == drivers_of(call'.arg)[code]
                before == ensure_lap(code)
                after  == lap_buffers'[code]
            IN  ("lap" \in DOMAIN driver /\ Some(driver["lap"]) # before.lap) =>
                    /\ Len(after.samples) = 1
                    /\ after.start_dist = get_or_0(driver, "dist")
                    /\ after.lap = Some(driver["lap"])
                    /\ before.samples # <<>> =>
                          /\ code \in DOMAIN lap_lengths'
                          /\ lap_lengths'[code] = Last(before.samples).dist
    ]_vars

\* laps 1, 1, 1, 2 at distances 100, _, 250, 250: the fourth sample starts
\* lap 2 at 250 and the lap length is the third sample's 150
C2_Witness ==
    /\ Ingested
    /\ Len(time_buffers[HAM]) = 4
    /\ lap_buffers[HAM].lap = Some(2)
    /\ Len(lap_buffers[HAM].samples) = 1
    /\ lap_buffers[HAM].start_dist = 250
    /\ HAM \in DOMAIN lap_lengths
    /\ lap_lengths[HAM] = 150

\* C3: a circuit length that is set never changes
C3_CircuitLatch ==
    [][circuit_length_m # None => circuit_length_m' = circuit_length_m]_vars

\* frame A set 5412, frame B carrying 9999 was ingested, 5412 stays
C3_Witness ==
    /\ Ingested
    /\ circuit_length_m = Some(5412)
    /\ get(call.arg, "circuit_length_m") = Some(9999)

\* C4 as stated: a frame that carries a circuit length while none is set
\* sets it to the value carried
C4_AnyFrameSetsCircuit ==
    [][(call'.op = "on_telemetry_data" /\ circuit_length_m = None
            /\ "circuit_length_m" \in DOMAIN call'.arg)
        => circuit_length_m' = Some(call'.arg["circuit_length_m"])
    ]_vars

\* C4 amended: a frame with competitor data that carries a non-zero circuit
\* length while none is set sets it to the value carried
C4_FrameWithDriversSetsCircuit ==
    [][(Ingests /\ circuit_length_m = None
            /\ get_or_0(call'.arg, "circuit_length_m") # 0)
        => circuit_length_m' = Some(call'.arg["circuit_length_m"])
    ]_vars

\* 9999 came first, after frames without drivers that carried it in vain
C4_Witness ==
    /\ Ingested
    /\ get(call.arg, "circuit_length_m") = Some(9999)
    /\ circuit_length_m = Some(9999)

\* the extent the claim C5 gives the lap chart of a driver
C5_Chain(code) ==
    IF circuit_length_m # None THEN circuit_length_m[1]
    ELSE IF code \in DOMAIN lap_lengths THEN lap_lengths[code]
    ELSE max([i \in 1..Len(lap_buffers[code].samples) |->
                 lap_buffers[code].samples[i].dist])

\* C5: the lap chart of a driver with samples extends to the circuit length
\* when set, else to the driver's last lap length when set (0 included), else
\* to the largest distance buffered
C5_LapExtentChain ==
    \A code \in DOMAIN lap_buffers :
        lap_buffers[code].samples # <<>> =>
            redraw_lap(lap_buffers, lap_lengths, circuit_length_m, code).xlim
                = Some(<<0, C5_Chain(code)>>)

\* the driver has no samples to show in the mode
NoData(code, mode) ==
    IF mode = "time"
    THEN code \notin DOMAIN time_buffers \/ time_buffers[code] = <<>>
    ELSE code \notin DOMAIN lap_buffers \/ lap_buffers[code].samples = <<>>

\* C6: a redraw for a driver that is unknown or has nothing buffered shows
\* empty lines and raises nothing, in either mode
C6_UnknownDriverShowsNothing ==
    (call.op = "on_driver_selected" /\ NoData(call.arg, x_mode)) =>
        (lines = EmptyLines /\ exc = "none")

\* ZZZ was asked for while another driver has samples
C6_Witness ==
    /\ call.op = "on_driver_selected"
    /\ call.arg = ZZZ
    /\ HAM \in DOMAIN time_buffers
    /\ x_mode = "time"
    /\ lines = EmptyLines

\* what a redraw for the driver in the mode shows: lines and x limits
query(code, mode) ==
    LET r == redraw(time_buffers, lap_buffers, lap_lengths, circuit_length_m,
                    code, mode)
    IN  <<r.lines, r.xlim>>

\* C7: a switch of mode changes what no redraw shows, for any driver in
\* either mode; so the switch back shows what was shown before the switch
C7_ModeSwitchKeepsQueries ==
    [][call'.op = "on_xmode_changed" =>
        \A code \in QueryCodes : \A mode \in {"time", "lap"} :
            query(code, mode)' = query(code, mode)
    ]_vars

\* switched to the lap chart of a driver on its second lap
C7_Witness ==
    /\ call.op = "on_xmode_changed"
    /\ x_mode = "lap"
    /\ HAM \in DOMAIN lap_lengths
    /\ Len(lap_buffers[HAM].samples) = 2
    /\ lines = query(HAM, "lap")[1]
    /\ lines # EmptyLines

\* C8 as stated: both buffers end with the readings of the driver entry, the
\* brake times 100, and every absent field, the distance too, is stored as 0;
\* nothing is raised
C8_AbsentStoredAsZero ==
    Ingested =>
        \A code \in DOMAIN drivers_of(call.arg) :
            LET driver == drivers_of(call.arg)[code]
                raw(key) == IF key \in DOMAIN driver THEN driver[key] ELSE 0
                t_last == Last(time_buffers[code])
                l_last == Last(lap_buffers[code].samples)
            IN  /\ exc = "none"
                /\ t_last.speed = raw("speed") /\ l_last.speed = raw("speed")
                /\ t_last.gear = raw("gear") /\ l_last.gear = raw("gear")
                /\ t_last.throttle = raw("throttle")
                /\ l_last.throttle = raw("throttle")
                /\ t_last.brake = 100 * raw("brake")
                /\ l_last.brake = 100 * raw("brake")
                /\ "dist" \notin DOMAIN driver => l_last.dist = 0

\* C8 amended: both buffers end with the readings of the driver entry, an
\* absent reading as 0, the brake times 100; an absent distance is read as 0
\* and stored relative to the lap start like any other; nothing is raised
C8_Normalized ==
    Ingested =>
        \A code \in DOMAIN drivers_of(call.arg) :
            LET driver == drivers_of(call.arg)[code]
                raw(key) == IF key \in DOMAIN driver THEN driver[key] ELSE 0
                t_last == Last(time_buffers[code])
                l_last == Last(lap_buffers[code].samples)
            IN  /\ exc = "none"
                /\ t_last.speed = raw("speed") /\ l_last.speed = raw("speed")
                /\ t_last.gear = raw("gear") /\ l_last.gear = raw("gear")
                /\ t_last.throttle = raw("throttle")
                /\ l_last.throttle = raw("throttle")
                /\ t_last.brake = 100 * raw("brake")
                /\ l_last.brake = 100 * raw("brake")
                /\ l_last.dist = raw("dist") - lap_buffers[code].start_dist

\* in a lap started at 100, an entry with the brake at 0.73 and no distance:
\* 73.00 and the distance -100 are stored
C8_Witness ==
    /\ Ingested
    /\ "dist" \notin DOMAIN drivers_of(call.arg)[HAM]
    /\ get(drivers_of(call.arg)[HAM], "brake") = Some(73)
    /\ Last(time_buffers[HAM]).brake = 7300
    /\ Last(lap_buffers[HAM].samples).brake = 7300
    /\ Last(lap_buffers[HAM].samples).dist = -100

\* seq lists the codes of the set, each once, in lexicographic order
Lists(seq, codes) ==
    /\ Range(seq) = codes
    /\ \A i, j \in 1..Len(seq) : i < j => str_lt(seq[i], seq[j])

\* C9 as stated: the selector lists, in order, every driver that has buffers
C9_ListsEveryKnownDriver ==
    Lists(driver_combo.items, DOMAIN time_buffers)

\* C9 amended: after a frame with drivers, the selector lists, in order, the
\* drivers of that frame, all of which have buffers; a driver with buffers
\* that the frame lacks is not listed
C9_ListsDriversOfFrame ==
    Ingested =>
        /\ Lists(driver_combo.items, DOMAIN drivers_of(call.arg))
        /\ DOMAIN drivers_of(call.arg) \subseteq DOMAIN time_buffers
        /\ DOMAIN time_buffers = DOMAIN lap_buffers

\* HAM has buffers, the last frame had HUL only
C9_Witness ==
    /\ Ingested
    /\ DOMAIN drivers_of(call.arg) = {HUL}
    /\ DOMAIN time_buffers = {HAM, HUL}
    /\ driver_combo.items = <<HUL>>

\* C10: a frame without competitor data changes no buffer, no lap length,
\* not the circuit length and not the selector, and raises nothing
C10_HollowFrameIsNoOp ==
    [][(call'.op = "on_telemetry_data" /\ drivers_of(call'.arg) = EmptyDict) =>
        /\ UNCHANGED <<time_buffers, lap_buffers, lap_lengths, circuit_length_m,
                       driver_combo, known_drivers>>
        /\ exc' = "none"
    ]_vars

\* a frame with an empty drivers mapping and a circuit length came while
\* drivers were buffered and no circuit length was set
C10_Witness ==
    /\ call.op = "on_telemetry_data"
    /\ drivers_of(call.arg) = EmptyDict
    /\ "frame" \in DOMAIN call.arg
    /\ "drivers" \in DOMAIN call.arg["frame"]
    /\ "circuit_length_m" \in DOMAIN call.arg
    /\ circuit_length_m = None
    /\ DOMAIN time_buffers = {HAM, HUL}

\* the four readings that both buffers keep of a sample
readings(sample) ==
    <<sample.speed, sample.gear, sample.throttle, sample.brake>>

\* C11: every driver of a frame with drivers has, after the frame, a time
\* buffer and a lap buffer, neither empty, that end with the same readings,
\* those of the driver's entry; each took one sample (the time buffer is at
\* most one longer, the lap buffer is one longer or holds that sample alone);
\* and in every state the same drivers have a time buffer and a lap buffer
C11_BothBuffersTakeTheSample ==
    [][/\ (DOMAIN time_buffers = DOMAIN lap_buffers)'
       /\ Ingests =>
            \A code \in DOMAIN drivers_of(call'.arg) :
                LET driver == drivers_of(call'.arg)[code]
                    tb_old == ensure_time(code)
                    lb_old == ensure_lap(code)
                IN  /\ code \in DOMAIN time_buffers'
                    /\ code \in DOMAIN lap_buffers'
                    /\ time_buffers'[code] # <<>>
                    /\ lap_buffers'[code].samples # <<>>
                    /\ readings(Last(time_buffers'[code]))
                          = readings(Last(lap_buffers'[code].samples))
                    /\ readings(Last(time_buffers'[code]))
                          = readings(normalize(driver))
                    /\ Len(time_buffers'[code]) <= Len(tb_old) + 1
                    /\ Len(lap_buffers'[code].samples)
                          \in {1, Len(lb_old.samples) + 1}
    ]_vars

\* a frame with HAM and HUL came when HAM had a sample and HUL had none
C11_Witness ==
    /\ Ingested
    /\ DOMAIN drivers_of(call.arg) = {HAM, HUL}
    /\ Len(time_buffers[HAM]) = 2
    /\ Len(lap_buffers[HAM].samples) = 2
    /\ Len(time_buffers[HUL]) = 1
    /\ Len(lap_buffers[HUL].samples) = 1
    /\ readings(Last(time_buffers[HUL])) = <<250, 7, 100, 7300>>
    /\ readings(Last(lap_buffers[HUL].samples)) = <<250, 7, 100, 7300>>

\* C12: a driver entry without a lap resets nothing: the driver's lap, lap
\* start distance and lap length stay as they were, the lap buffer keeps its
\* samples in order and gains exactly one, at the raw distance minus the lap
\* start distance
C12_AbsentLapNeverResets ==
    [][Ingests =>
        \A code \in DOMAIN drivers_of(call'.arg) :
            LET driver == drivers_of(call'.arg)[code]
                before == ensure_lap(code)
                after  == lap_buffers'[code]
            IN  "lap" \notin DOMAIN driver =>
                    /\ after.lap = before.lap
                    /\ after.start_dist = before.start_dist
                    /\ get(lap_lengths', code) = get(lap_lengths, code)
                    /\ Len(after.samples) = Len(before.samples) + 1
                    /\ SubSeq(after.samples, 1, Len(before.samples))
                          = before.samples
                    /\ Last(after.samples).dist
                          = get_or_0(driver, "dist") - before.start_dist
    ]_vars

\* on lap 1 started at 100, after two samples, an entry at 250 without a lap
C12_Witness ==
    /\ Ingested
    /\ "lap" \notin DOMAIN drivers_of(call.arg)[HAM]
    /\ get(drivers_of(call.arg)[HAM], "dist") = Some(250)
    /\ lap_buffers[HAM].lap = Some(1)
    /\ lap_buffers[HAM].start_dist = 100
    /\ Len(lap_buffers[HAM].samples) = 3
    /\ Last(lap_buffers[HAM].samples).dist = 150

\* C13: the time chart of a driver with samples puts the sample appended last
\* at x = 0 and every sample at an x from -TIME_WINDOW to 0, and its x limits
\* are (-TIME_WINDOW, 0)
C13_TimeChartWithinWindow ==
    \A code \in DOMAIN time_buffers :
        time_buffers[code] # <<>> =>
            LET r  == redraw_time(time_buffers, code)
                xs == r.lines.xs
            IN  /\ r.xlim = Some(<<-TIME_WINDOW, 0>>)
                /\ Last(xs) = 0
                /\ \A i \in 1..Len(xs) : -TIME_WINDOW <= xs[i] /\ xs[i] <= 0

\* C14: no step removes a driver's buffers, and a frame leaves the time
\* buffer, the lap buffer and the lap length of every buffered driver that
\* it lacks as they were
C14_AbsentDriverUntouched ==
    [][/\ DOMAIN time_buffers \subseteq DOMAIN time_buffers'
       /\ DOMAIN lap_buffers \subseteq DOMAIN lap_buffers'
       /\ DOMAIN lap_lengths \subseteq DOMAIN lap_lengths'
       /\ call'.op = "on_telemetry_data" =>
            \A code \in DOMAIN time_buffers \ DOMAIN drivers_of(call'.arg) :
                /\ time_buffers'[code] = time_buffers[code]
                /\ lap_buffers'[code] = lap_buffers[code]
                /\ get(lap_lengths', code) = get(lap_lengths, code)
    ]_vars

\* HAM is on its second lap with a lap length of 0 from its first, and the
\* last frame, that gave HUL its third sample, had no HAM
C14_Witness ==
    /\ Ingested
    /\ DOMAIN drivers_of(call.arg) = {HUL}
    /\ Len(time_buffers[HUL]) = 3
    /\ HAM \in DOMAIN time_buffers
    /\ Len(time_buffers[HAM]) = 2
    /\ lap_buffers[HAM].lap = Some(2)
    /\ Len(lap_buffers[HAM].samples) = 1
    /\ get(lap_lengths, HAM) = Some(0)

\* the callbacks other than on_telemetry_data
ViewOps ==
    {"on_xmode_changed", "on_driver_selected", "on_connection_status_changed"}

\* C15: a switch of mode, a selection of a driver (a redraw in the current
\* mode) and a change of connection status, a disconnect too, leave every
\* time buffer, lap buffer and lap length and the circuit length as they
\* were, so that a redraw for any driver in either mode shows after the step
\* what it would have shown before
C15_OnlyFramesChangeBuffers ==
    [][call'.op \in ViewOps =>
        /\ UNCHANGED <<time_buffers, lap_buffers, lap_lengths,
                       circuit_length_m>>
        /\ \A code \in QueryCodes : \A mode \in {"time", "lap"} :
              query(code, mode)' = query(code, mode)
    ]_vars

\* a disconnect emptied the chart of a driver on its second lap, with a lap
\* length and a circuit length recorded; a redraw would show its samples
C15_Witness ==
    /\ call.op = "on_connection_status_changed"
    /\ call.arg = "Disconnected"
    /\ lines = EmptyLines
    /\ HAM \in DOMAIN time_buffers
    /\ Len(time_buffers[HAM]) = 3
    /\ lap_buffers[HAM].lap = Some(2)
    /\ HAM \in DOMAIN lap_lengths
    /\ circuit_length_m = Some(5412)
    /\ query(HAM, "time")[1] # EmptyLines
    /\ query(HAM, "lap")[2] = Some(<<0, 5412>>)

\* nothing of a sample is half done for the driver: it has both buffers,
\* neither is empty, the head of the time buffer is not stale, and both end
\* with the same readings
Settled(code) ==
    /\ code \in DOMAIN time_buffers
    /\ code \in DOMAIN lap_buffers
    /\ time_buffers[code] # <<>>
    /\ lap_buffers[code].samples # <<>>
    /\ time_buffers[code][1].t >= Last(time_buffers[code]).t - TIME_WINDOW
    /\ readings(Last(time_buffers[code]))
          = readings(Last(lap_buffers[code].samples))

WithoutStalePrefix(seq, cutoff) ==
    LET stale == {k \in 0..Len(seq) : \A i \in 1..k : seq[i].t < cutoff}
        k     == CHOOSE k \in stale : \A j \in stale : j <= k
    IN  SubSeq(seq, k + 1, Len(seq))

\* the session times of a time buffer, in its order
times(tb) == [i \in 1..Len(tb) |-> tb[i].t]

\* C17: the time buffer of a driver of the frame is, after the frame, its
\* buffer before followed by the new sample, without the longest prefix of
\* samples older than the new time minus TIME_WINDOW: the new sample is last,
\* and what stays stays in the order of arrival
C17_AppendThenStripStalePrefix ==
    [][Ingests =>
        \A code \in DOMAIN drivers_of(call'.arg) :
            LET s     == normalize(drivers_of(call'.arg)[code])
                t_new == get_or_0(frame_of(call'.arg), "t")
                new   == [t |-> t_new, speed |-> s.speed, gear |-> s.gear,
                          throttle |-> s.throttle, brake |-> s.brake]
                after == time_buffers'[code]
            IN  /\ after = WithoutStalePrefix(Append(ensure_time(code), new),
                                              t_new - TIME_WINDOW)
                /\ Last(after) = new
    ]_vars

\* after the times 0 and 30 a second frame at 30: the head at 0, exactly at
\* the cutoff, is kept, and so are both samples at 30
C17_Witness ==
    /\ Ingested
    /\ get_or_0(frame_of(call.arg), "t") = 30
    /\ times(time_buffers[HAM]) = <<0, 30, 30>>

\* the distances of the samples of a lap buffer, in its order
dists(lb) == [i \in 1..Len(lb.samples) |-> lb.samples[i].dist]

\* seq never decreases
NonDecreasing(seq) == \A i, j \in 1..Len(seq) : i < j => seq[i] <= seq[j]

\* C18: after every step, a lap buffer whose lap is set starts with a sample
\* at distance 0; the sample a frame appends to it is at the entry's raw
\* distance minus the lap start distance; the samples that were there before
\* are either all gone (a new lap) or all kept against the same lap start
\* distance; and if the raw distances (stored distance plus lap start
\* distance) never decrease, the stored ones are >= 0 and never decrease
C18_LapDistancesRebased ==
    [][\A code \in DOMAIN lap_buffers' :
        LET before == ensure_lap(code)
            after  == lap_buffers'[code]
            raws   == [i \in 1..Len(after.samples) |->
                          after.samples[i].dist + after.start_dist]
        IN  after.lap # None =>
              /\ after.samples # <<>>
              /\ after.samples[1].dist = 0
              /\ (Ingests /\ code \in DOMAIN drivers_of(call'.arg)) =>
                    /\ Last(after.samples).dist
                          = get_or_0(drivers_of(call'.arg)[code], "dist")
                              - after.start_dist
                    /\ \/ Len(after.samples) = 1
                       \/ /\ after.start_dist = before.start_dist
                          /\ SubSeq(after.samples, 1, Len(before.samples))
                                = before.samples
              /\ ~ (Ingests /\ code \in DOMAIN drivers_of(call'.arg)) =>
                    after = before
              /\ NonDecreasing(raws) =>
                    /\ NonDecreasing(dists(after))
                    /\ \A i \in 1..Len(after.samples) :
                          after.samples[i].dist >= 0
    ]_vars

\* the second lap started at 100 after a first lap from 100 to 250, and has
\* its second sample at 250
C18_Witness ==
    /\ Ingested
    /\ lap_buffers[HAM].lap = Some(2)
    /\ lap_buffers[HAM].start_dist = 100
    /\ dists(lap_buffers[HAM]) = <<0, 150>>
    /\ get(lap_lengths, HAM) = Some(150)

\* C19: the length of a driver's lap buffer counts the samples since and
\* with the last one that changed the lap (all of them while no lap has been
\* seen): it starts at 0, a sample whose lap differs from the stored one
\* makes it 1, the buffer holding that sample alone, any other sample adds 1,
\* and no other step changes it
C19_LapBufferCountsCurrentLap ==
    [][\A code \in DOMAIN lap_buffers' :
        LET before == ensure_lap(code)
            after  == lap_buffers'[code]
        IN  IF Ingests /\ code \in DOMAIN drivers_of(call'.arg)
            THEN LET driver  == drivers_of(call'.arg)[code]
                     changes == "lap" \in DOMAIN driver
                                  /\ Some(driver["lap"]) # before.lap
                 IN  /\ changes <=> after.lap # before.lap
                     /\ Len(after.samples)
                           = IF changes THEN 1 ELSE Len(before.samples) + 1
                     /\ ~ changes =>
                           SubSeq(after.samples, 1, Len(before.samples))
                             = before.samples
                     /\ readings(Last(after.samples))
                           = readings(normalize(driver))
            ELSE after = before
    ]_vars

\* two samples on lap 1, then one on lap 2 and one without a lap: four in
\* the time buffer, two in the lap buffer
C19_Witness ==
    /\ Ingested
    /\ "lap" \notin DOMAIN drivers_of(call.arg)[HAM]
    /\ Len(time_buffers[HAM]) = 4
    /\ lap_buffers[HAM].lap = Some(2)
    /\ Len(lap_buffers[HAM].samples) = 2
    /\ get(lap_lengths, HAM) = Some(150)

\* C20: a driver's stored lap, once set, stays set; after a frame it is the
\* lap of the driver's entry when the entry has one and the lap stored before
\* when it has none, and no other step changes it; the driver's lap length
\* and lap start distance change only in a frame whose entry has a lap that
\* differs from the stored one, a lower one too
C20_LapFollowsEntries ==
    [][\A code \in DOMAIN lap_buffers' :
        LET before   == ensure_lap(code)
            after    == lap_buffers'[code]
            reported == Ingests /\ code \in DOMAIN drivers_of(call'.arg)
            entry_lap == IF reported
                         THEN get(drivers_of(call'.arg)[code], "lap")
                         ELSE None
        IN  /\ before.lap # None => after.lap # None
            /\ after.lap = IF entry_lap # None THEN entry_lap ELSE before.lap
            /\ (\/ after.start_dist # before.start_dist
                \/ get(lap_lengths', code) # get(lap_lengths, code))
                  => (entry_lap # None /\ entry_lap # before.lap)
    ]_vars

\* two samples on lap 2, from 100 to 250, then an entry on lap 1 at 250: the
\* stored lap goes down to 1 and the lap length 150 is recorded
C20_Witness ==
    /\ Ingested
    /\ get(drivers_of(call.arg)[HAM], "lap") = Some(1)
    /\ Len(time_buffers[HAM]) = 3
    /\ lap_buffers[HAM].lap = Some(1)
    /\ lap_buffers[HAM].start_dist = 250
    /\ Len(lap_buffers[HAM].samples) = 1
    /\ get(lap_lengths, HAM) = Some(150)

====
